---- MODULE Spec2Model ----
(***************************************************************************)
(* VisionRAG: the retrieval and indexing layer (app/rag_pipeline.py), the  *)
(* Ollama client (app/llm_client.py) and the Streamlit script run          *)
(* (app/main.py), as a state machine.                                      *)
(*                                                                         *)
(* The vector store is the one ChromaDB collection "video_frames": a map   *)
(* from entry id to document, embedding and metadata.  Every handler is    *)
(* one action; `last` records the call just handled (its arguments, what   *)
(* it returned or raised, and the requests it issued).                     *)
(***************************************************************************)
EXTENDS Integers, Sequences, FiniteSets, TLC

VARIABLES store, last, processed_video, ui

vars == <<store, last, processed_video, ui>>

----------------------------------------------------------------------------
(* Bounds and program constants *)

\* Longest list of frame records handed to one index_video_frames call.
MaxRecords == 2

\* Most frames extracted from one uploaded video.
MaxFrames == 2

\* Most frames a video handed to the scene detector holds.
MaxSourceFrames == 3

\* Most segments a transcription holds.
MaxSegments == 2

\* config.py
DEFAULT_TOP_K == 10
MIN_TOP_K == 3
MAX_TOP_K == 20

TopKs == MIN_TOP_K..MAX_TOP_K

\* The slider positions tried in the script run: both ends and the default.
SliderTopKs == {MIN_TOP_K, DEFAULT_TOP_K, MAX_TOP_K}

VideoIds == {"v1", "v2"}

Questions == {"Where is the car?"}

----------------------------------------------------------------------------
(* Frame records *)

Pad2(n) == IF n < 10 THEN "0" \o ToString(n) ELSE ToString(n)

\* utils.format_timestamp / AudioProcessor._format_timestamp: HH:MM:SS
format_timestamp(seconds) ==
    LET hours == seconds \div 3600
        minutes == (seconds % 3600) \div 60
        secs == seconds % 60
    IN Pad2(hours) \o ":" \o Pad2(minutes) \o ":" \o Pad2(secs)

\* A record built from a sampled frame and its caption.
VisualRecord(frame_index, seconds, caption) ==
    [frame_index |-> frame_index,
     timestamp_seconds |-> seconds,
     timestamp_str |-> format_timestamp(seconds),
     caption |-> caption,
     type |-> "visual"]

\* A record built from one transcript segment: every one carries index -1.
AudioRecord(text, start) ==
    [caption |-> "[AUDIO TRANSCRIPT] " \o text,
     timestamp_seconds |-> start,
     timestamp_str |-> format_timestamp(start),
     frame_index |-> -1,
     type |-> "audio"]

\* Records of a video with one sampled frame and two speech segments.
SpokenVideoRecords ==
    {VisualRecord(0, 0, "a car enters"),
     AudioRecord("alarm rings", 2),
     AudioRecord("door slams", 7)}

\* Records of a video with three sampled frames and one speech segment.
LongVideoRecords ==
    {VisualRecord(0, 0, "a car enters"),
     VisualRecord(1, 5, "a car parked"),
     VisualRecord(2, 10, "a person walks by"),
     AudioRecord("door slams", 7)}

\* Records of a video with one sampled frame.
ShortVideoRecords == {VisualRecord(0, 0, "a car enters")}

\* process_video_pipeline: the records of the first n extracted frames, one
\* every five seconds, each with the caption the captioner gives it.
FrameCaption(frame_index) ==
    CASE frame_index = 0 -> "a car enters"
      [] frame_index = 1 -> "a car parked"
      [] OTHER -> "a person walks by"

PipelineRecords(n) ==
    [i \in 1..n |->
       [frame_index |-> i - 1,
        timestamp_seconds |-> 5 * (i - 1),
        timestamp_str |-> format_timestamp(5 * (i - 1)),
        caption |-> FrameCaption(i - 1)]]

AllRecords == SpokenVideoRecords \cup LongVideoRecords \cup ShortVideoRecords

\* Every list of at most MaxRecords different records drawn from `records`.
ListsOver(records) ==
    {s \in UNION {[1..n -> records] : n \in 0..MaxRecords} :
        \A i, j \in DOMAIN s : i # j => s[i] # s[j]}

\* The calls explored per video: v1 is the spoken video, v2 the short one.
IndexCalls ==
    ({"v1"} \X ListsOver(SpokenVideoRecords))
        \cup ({"v2"} \X ListsOver(ShortVideoRecords))

\* One record per call: v1 is the long video, v2 the short one.
SingleRecordCalls ==
    ({"v1"} \X {<<r>> : r \in LongVideoRecords})
        \cup ({"v2"} \X {<<r>> : r \in ShortVideoRecords})

----------------------------------------------------------------------------
(* index_video_frames: ids, documents, metadata *)

FrameId(video_id, record) == video_id \o "_" \o ToString(record.frame_index)

Document(video_id, record) ==
    "Video " \o video_id \o ", time " \o record.timestamp_str \o ": "
        \o record.caption

Metadata(video_id, record) ==
    [video_id |-> video_id,
     frame_index |-> record.frame_index,
     timestamp_seconds |-> record.timestamp_seconds,
     timestamp_str |-> record.timestamp_str,
     caption |-> record.caption]

----------------------------------------------------------------------------
(* The embedding model behind the service: a vector per text, the same     *)
(* vector for the same text.  One coordinate is enough to order distances. *)

CaptionVector(caption) ==
    CASE caption = "a car enters" -> 1
      [] caption = "a car parked" -> 2
      [] caption = "a person walks by" -> 6
      [] caption = "[AUDIO TRANSCRIPT] alarm rings" -> 4
      [] caption = "[AUDIO TRANSCRIPT] door slams" -> 2
      [] OTHER -> 0

\* The vector of every document and question; any other text gets 0.
VectorPairs ==
    {<<Document(p[1], p[2]), CaptionVector(p[2].caption)>> :
        p \in VideoIds \X AllRecords}
        \cup {<<Document(p[1], PipelineRecords(p[2])[p[2]]),
                CaptionVector(FrameCaption(p[2] - 1))>> :
                  p \in VideoIds \X (1..MaxFrames)}
        \cup {<<"Where is the car?", 1>>}

VectorTable ==
    [t \in {p[1] : p \in VectorPairs} |->
        (CHOOSE p \in VectorPairs : p[1] = t)[2]]

TextVector(text) ==
    IF text \in DOMAIN VectorTable THEN VectorTable[text] ELSE 0

----------------------------------------------------------------------------
(* The collection *)

Count(st) == Cardinality(DOMAIN st)

\* A collection that ignores the where filter: every entry matches.
MatchingIdsUnfiltered(st, video_id) == DOMAIN st

\* where={"video_id": video_id}
MatchingIds(st, video_id) ==
    {id \in DOMAIN st : st[id].metadata.video_id = video_id}

\* Squared L2, the collection's default space.
Distance(a, b) == (a - b) * (a - b)

HasDuplicates(s) == \E i, j \in DOMAIN s : i # j /\ s[i] = s[j]

\* collection.add succeeds iff ids are non-empty and pairwise distinct.
AddRaises(ids) ==
    IF Len(ids) = 0 THEN "ValueError"
    ELSE IF HasDuplicates(ids) THEN "DuplicateIDError"
    ELSE "none"

\* collection.add: an id already in the collection is skipped, not replaced.
CollectionAdd(st, ids, documents, embeddings, metadatas) ==
    LET fresh == {i \in DOMAIN ids : ids[i] \notin DOMAIN st}
    IN [id \in DOMAIN st \cup {ids[i] : i \in fresh} |->
          IF id \in DOMAIN st THEN st[id]
          ELSE LET i == CHOOSE k \in fresh : ids[k] = id
               IN [document |-> documents[i],
                   embedding |-> embeddings[i],
                   metadata |-> metadatas[i]]]

\* A delete that empties the collection.
CollectionDeleteAll(st, ids) == [id \in {} |-> st[id]]

\* collection.delete(ids=...)
CollectionDelete(st, ids) == [id \in DOMAIN st \ ids |-> st[id]]

----------------------------------------------------------------------------
(* llm_client: one HTTP exchange with the inference service *)

\* What the service can answer to one POST: no connection, no answer within
\* the timeout, an HTTP error status, or a 200 with a JSON body holding the
\* given fields.
FailedExchanges ==
    {[kind |-> k, fields |-> {}] : k \in {"unreachable", "timeout", "http_error"}}

OkExchanges ==
    {[kind |-> "ok", fields |-> f] : f \in SUBSET {"embedding", "response"}}

Exchanges == FailedExchanges \cup OkExchanges

\* requests.post(...) followed by raise_for_status(): raises a
\* RequestException unless the exchange ended with a 2xx answer.
PostRaises(exchange) == exchange.kind # "ok"

\* A client that posts again after a failed request.
RequestsIssuedWithRetry(first, second) == IF PostRaises(first) THEN 2 ELSE 1

\* The requests one call issues, given what the service would answer to a
\* first and to a second request: the code posts once.
RequestsIssued(first, second) == 1

\* The exchange whose answer the call ends with.
AnsweringExchange(first, second) ==
    IF RequestsIssued(first, second) = 1 THEN first ELSE second

\* A client without the field check.
LacksEmbeddingNever(exchange) == FALSE

\* `"embedding" not in result`
LacksEmbedding(exchange) == "embedding" \notin exchange.fields

\* get_embedding(text): what it returns or raises, and the requests it made.
get_embedding(text, first, second) ==
    LET x == AnsweringExchange(first, second)
        base == [requests |-> RequestsIssued(first, second),
                 outcome |-> "raised", error |-> "none", vector |-> <<>>]
    IN IF PostRaises(x) THEN [base EXCEPT !.error = "RequestException"]
       ELSE IF LacksEmbedding(x) THEN [base EXCEPT !.error = "ValueError"]
       ELSE [base EXCEPT !.outcome = "returned",
                         !.vector = IF "embedding" \in x.fields
                                    THEN <<TextVector(text)>> ELSE <<>>]

\* generate_answer(question, context): the same shape, field "response".
generate_answer(question, context, first, second) ==
    LET x == AnsweringExchange(first, second)
        base == [requests |-> RequestsIssued(first, second),
                 outcome |-> "raised", error |-> "none", answer |-> ""]
    IN IF PostRaises(x) THEN [base EXCEPT !.error = "RequestException"]
       ELSE IF "response" \notin x.fields
            THEN [base EXCEPT !.error = "ValueError"]
       ELSE [base EXCEPT !.outcome = "returned",
                         !.answer = "answer to: " \o question]

\* What an embeddings_fn passed to the pipeline can raise.
EmbeddingErrors == {"RequestException", "ValueError"}

----------------------------------------------------------------------------
(* The record of the call just handled *)

NoExchange == [kind |-> "none", fields |-> {}]

\* No video: what cv2.VideoCapture gives for a path it cannot open.
NoVideo == [opened |-> FALSE, fps |-> 0, frames |-> <<>>, pos_offset |-> 0]

NoScene ==
    [sampled |-> <<>>, actual_clusters |-> 0, embed_calls |-> 0,
     kmeans_fits |-> 0, labels |-> <<>>, centers |-> <<>>,
     closest_indices |-> <<>>]

\* A video without a sound track.
NoAudio ==
    [has_audio |-> FALSE, extract_fault |-> FALSE, written |-> FALSE,
     transcribe_fault |-> FALSE, remove_fault |-> FALSE, segments |-> <<>>]

NoCall ==
    [op |-> "none", video_id |-> "", frame_records |-> <<>>, question |-> "",
     top_k |-> 0, exchange |-> NoExchange,
     outcome |-> "none", error |-> "none", fail_at |-> 0,
     embed_calls |-> 0, requests |-> 0, completion_requests |-> 0,
     ret_count |-> 0, ret_ids |-> <<>>, ret_results |-> <<>>,
     ret_vector |-> <<>>, ret_text |-> "", context |-> "", issues |-> {},
     interaction |-> "none", answer_requests |-> 0,
     video |-> NoVideo, num_clusters |-> 0, sample_rate |-> 0,
     scene |-> NoScene, audio |-> NoAudio, caught |-> {}, logged |-> {},
     target_fps |-> 0, frame_interval |-> 0]

----------------------------------------------------------------------------
(* rag_pipeline.index_video_frames *)

\* index_video_frames without its early return.
EmptyGuardMissing(frame_records) == FALSE

\* `if not frame_records: return 0`
EmptyGuard(frame_records) == Len(frame_records) = 0

\* The records the loop got through when embeddings_fn raised on record
\* fail_at (1-based; 0: it never raised): those before it.
Embedded(frame_records, fail_at) ==
    IF fail_at = 0 THEN frame_records ELSE SubSeq(frame_records, 1, fail_at - 1)

\* Calls of embeddings_fn made by the loop.
EmbedCalls(frame_records, fail_at) ==
    IF fail_at = 0 THEN Len(frame_records) ELSE fail_at

\* A loop that writes what it has when an embedding raises.
AddReachedAlways(fail_at) == TRUE

\* collection.add follows the loop: it is reached only if no embedding raised.
AddReached(fail_at) == fail_at = 0

\* index_video_frames(collection, video_id, frame_records, embeddings_fn),
\* where embeddings_fn raises `err` on record fail_at: the collection
\* afterwards, and what the call returned or raised.
index_video_frames(st, video_id, frame_records, fail_at, err) ==
    LET done == Embedded(frame_records, fail_at)
        ids == [i \in DOMAIN done |-> FrameId(video_id, done[i])]
        documents == [i \in DOMAIN done |-> Document(video_id, done[i])]
        embeddings == [i \in DOMAIN done |-> <<TextVector(documents[i])>>]
        metadatas == [i \in DOMAIN done |-> Metadata(video_id, done[i])]
        calls == EmbedCalls(frame_records, fail_at)
    IN IF EmptyGuard(frame_records)
       THEN [store |-> st, outcome |-> "returned", error |-> "none",
             ret_count |-> 0, embed_calls |-> 0]
       ELSE IF ~AddReached(fail_at)
       THEN [store |-> st, outcome |-> "raised", error |-> err,
             ret_count |-> 0, embed_calls |-> calls]
       ELSE IF AddRaises(ids) # "none"
       THEN [store |-> st, outcome |-> "raised", error |-> AddRaises(ids),
             ret_count |-> 0, embed_calls |-> calls]
       ELSE [store |-> CollectionAdd(st, ids, documents, embeddings, metadatas),
             outcome |-> "returned", error |-> "none",
             ret_count |-> Len(ids), embed_calls |-> calls]

IndexVideoFrames(video_id, frame_records, fail_at, err) ==
    LET r == index_video_frames(store, video_id, frame_records, fail_at, err)
    IN /\ fail_at \in 0..Len(frame_records)
       /\ store' = r.store
       /\ last' = [NoCall EXCEPT !.op = "index", !.video_id = video_id,
                                 !.frame_records = frame_records,
                                 !.fail_at = fail_at,
                                 !.outcome = r.outcome, !.error = r.error,
                                 !.ret_count = r.ret_count,
                                 !.embed_calls = r.embed_calls]
       /\ UNCHANGED <<processed_video, ui>>

----------------------------------------------------------------------------
(* rag_pipeline.query_video *)

\* A query that asks the collection for one result too many.
NResultsOneMore(top_k) == top_k + 1

\* n_results=top_k
NResults(top_k) == top_k

\* The ways to list the k nearest of `ids` to q, nearest first; the order
\* of ids at equal distance is the collection's choice.
RECURSIVE NearestFirst(_, _, _, _)
NearestFirst(st, q, ids, k) ==
    IF k = 0 \/ ids = {} THEN {<<>>}
    ELSE LET d(id) == Distance(st[id].embedding[1], q[1])
             nearest == {id \in ids : \A other \in ids : d(id) <= d(other)}
         IN UNION {{<<id>> \o rest :
                      rest \in NearestFirst(st, q, ids \ {id}, k - 1)} :
                   id \in nearest}

\* collection.query(query_embeddings=[q], n_results=n, where={"video_id": v})
CollectionQuery(st, q, n, video_id) ==
    NearestFirst(st, q, MatchingIds(st, video_id), n)

\* The loop over results['metadatas'][0] and results['distances'][0].
FormatResults(st, q, ids) ==
    [i \in DOMAIN ids |->
       LET metadata == st[ids[i]].metadata
           distance == Distance(st[ids[i]].embedding[1], q[1])
       IN [caption |-> metadata.caption,
           timestamp_str |-> metadata.timestamp_str,
           timestamp_seconds |-> metadata.timestamp_seconds,
           frame_index |-> metadata.frame_index,
           distance |-> distance,
           similarity_score |-> <<1, 1 + distance>>]]

\* query_video(collection, video_id, question, top_k, embeddings_fn), where
\* embeddings_fn raises `err` ("none": it returns the question's vector):
\* every outcome the call can have.
query_video(st, video_id, question, top_k, err) ==
    LET q == <<TextVector(question)>>
    IN IF err # "none"
       THEN {[outcome |-> "raised", error |-> err, ids |-> <<>>,
              results |-> <<>>]}
       ELSE {[outcome |-> "returned", error |-> "none", ids |-> ids,
              results |-> FormatResults(st, q, ids)] :
                ids \in CollectionQuery(st, q, NResults(top_k), video_id)}

QueryVideo(video_id, question, top_k, err) ==
    /\ \E r \in query_video(store, video_id, question, top_k, err) :
         last' = [NoCall EXCEPT !.op = "query", !.video_id = video_id,
                                !.question = question, !.top_k = top_k,
                                !.embed_calls = 1,
                                !.outcome = r.outcome, !.error = r.error,
                                !.ret_ids = r.ids, !.ret_results = r.results,
                                !.ret_count = Len(r.results)]
    /\ UNCHANGED <<store, processed_video, ui>>

----------------------------------------------------------------------------
(* rag_pipeline.delete_video_frames and get_collection_stats *)

\* A delete that counts the entries and leaves them.
StoreAfterDeleteSkipped(st, ids) == st

\* collection.delete(ids=results['ids'])
StoreAfterDelete(st, ids) == CollectionDelete(st, ids)

DeleteVideoFrames(video_id) ==
    LET ids == MatchingIds(store, video_id)
        call == [NoCall EXCEPT !.op = "delete", !.video_id = video_id,
                               !.outcome = "returned"]
    IN /\ IF ids # {}
          THEN /\ store' = StoreAfterDelete(store, ids)
               /\ last' = [call EXCEPT !.ret_count = Cardinality(ids)]
          ELSE /\ store' = store
               /\ last' = [call EXCEPT !.ret_count = 0]
       /\ UNCHANGED <<processed_video, ui>>

GetCollectionStats ==
    /\ last' = [NoCall EXCEPT !.op = "stats", !.outcome = "returned",
                              !.ret_count = Count(store),
                              !.ret_text = "video_frames"]
    /\ UNCHANGED <<store, processed_video, ui>>

----------------------------------------------------------------------------
(* Direct calls of the client, as test_ollama_models makes them *)

CallGetEmbedding(text, first, second) ==
    LET r == get_embedding(text, first, second)
    IN /\ last' = [NoCall EXCEPT !.op = "get_embedding", !.question = text,
                                 !.exchange = first,
                                 !.outcome = r.outcome, !.error = r.error,
                                 !.requests = r.requests,
                                 !.ret_vector = r.vector]
       /\ UNCHANGED <<store, processed_video, ui>>

CallGenerateAnswer(question, context, first, second) ==
    LET r == generate_answer(question, context, first, second)
    IN /\ last' = [NoCall EXCEPT !.op = "generate_answer",
                                 !.question = question,
                                 !.context = context,
                                 !.exchange = first,
                                 !.outcome = r.outcome, !.error = r.error,
                                 !.requests = r.requests,
                                 !.completion_requests = r.requests,
                                 !.ret_text = r.answer]
       /\ UNCHANGED <<store, processed_video, ui>>

----------------------------------------------------------------------------
(* The pipeline and the client, called in any order *)

EmptyStore == [id \in {} |-> NoCall]

\* Nothing is rendered before the first script run.
NoUi ==
    [uploaded |-> FALSE, process_disabled |-> TRUE, qa_shown |-> FALSE,
     issues |-> {}]

Init ==
    /\ store = EmptyStore
    /\ last = NoCall
    /\ processed_video = "None"
    /\ ui = NoUi

\* What embeddings_fn does on record fail_at: nothing to raise when it is 0.
ErrorsAt(fail_at) == IF fail_at = 0 THEN {"none"} ELSE EmbeddingErrors

Unreachable == [kind |-> "unreachable", fields |-> {}]

Next ==
    \/ \E c \in IndexCalls : \E fail_at \in 0..Len(c[2]) :
         \E err \in ErrorsAt(fail_at) : IndexVideoFrames(c[1], c[2], fail_at, err)
    \/ \E v \in VideoIds : DeleteVideoFrames(v)
    \/ GetCollectionStats
    \/ \E first \in Exchanges : \E second \in {first, Unreachable} :
         CallGetEmbedding("test", first, second)
    \/ \E first \in Exchanges : \E second \in {first, Unreachable} :
         CallGenerateAnswer("test question", "test context", first, second)

Spec == Init /\ [][Next]_vars

\* Retrieval over videos indexed record by record.
NextQuery ==
    \/ \E c \in SingleRecordCalls : \E fail_at \in 0..1 :
         \E err \in ErrorsAt(fail_at) : IndexVideoFrames(c[1], c[2], fail_at, err)
    \/ \E v \in VideoIds : DeleteVideoFrames(v)
    \/ \E v \in VideoIds : \E q \in Questions : \E k \in TopKs :
         \E err \in EmbeddingErrors \cup {"none"} : QueryVideo(v, q, k, err)

SpecQuery == Init /\ [][NextQuery]_vars

----------------------------------------------------------------------------
(* main.py: one run of the Streamlit script *)

OkAnswer == [kind |-> "ok", fields |-> {"embedding", "response"}]

EmptyAnswer == [kind |-> "ok", fields |-> {}]

HttpError == [kind |-> "http_error", fields |-> {}]

\* What the service does in one readiness check: whether GET /api/tags
\* answers 200 when check_system_ready asks and when test_ollama_models asks,
\* and its answers to the two model probes.
HealthStates ==
    {[up1 |-> TRUE, up2 |-> TRUE, embedding |-> OkAnswer, completion |-> OkAnswer],
     [up1 |-> FALSE, up2 |-> FALSE, embedding |-> Unreachable, completion |-> Unreachable],
     [up1 |-> FALSE, up2 |-> TRUE, embedding |-> OkAnswer, completion |-> OkAnswer],
     [up1 |-> TRUE, up2 |-> TRUE, embedding |-> HttpError, completion |-> OkAnswer],
     [up1 |-> TRUE, up2 |-> TRUE, embedding |-> OkAnswer, completion |-> HttpError]}

\* The service's answers to the calls of the question handler.
HandlerExchanges == {OkAnswer, Unreachable, EmptyAnswer}

\* llm_client.test_ollama_models: when the server answers, it probes both
\* models with a real get_embedding and a real generate_answer call.
test_ollama_models(h) ==
    LET e == get_embedding("test", h.embedding, h.embedding)
        g == generate_answer("test question", "test context",
                             h.completion, h.completion)
    IN IF ~h.up2
       THEN [server |-> FALSE, embedding_model |-> FALSE, llm_model |-> FALSE,
             embedding_requests |-> 0, completion_requests |-> 0,
             caught |-> {}, logged |-> {}]
       ELSE [server |-> TRUE,
             embedding_model |-> e.outcome = "returned",
             llm_model |-> g.outcome = "returned",
             embedding_requests |-> e.requests,
             completion_requests |-> g.requests,
             \* `except: pass` around each probe
             caught |-> (IF e.outcome = "raised"
                         THEN {"embedding probe"} ELSE {})
                          \cup (IF g.outcome = "raised"
                                THEN {"llm probe"} ELSE {}),
             logged |-> {}]

\* main.check_system_ready
check_system_ready(h) ==
    LET model_status == test_ollama_models(h)
    IN [issues |-> (IF ~h.up1 THEN {"ollama"} ELSE {})
                     \cup (IF ~model_status.embedding_model
                           THEN {"embedding_model"} ELSE {})
                     \cup (IF ~model_status.llm_model
                           THEN {"llm_model"} ELSE {}),
        completion_requests |-> model_status.completion_requests]

\* A block that numbers the results from 0.
ContextBlockFromZero(rank, result) ==
    "[Frame " \o ToString(rank - 1) \o "] time=" \o result.timestamp_str
        \o "\ncaption: " \o result.caption

\* The context block of the rank-th result.
ContextBlock(rank, result) ==
    "[Frame " \o ToString(rank) \o "] time=" \o result.timestamp_str
        \o "\ncaption: " \o result.caption

\* "\n\n".join(context_parts)
RECURSIVE JoinBlocks(_, _)
JoinBlocks(results, from) ==
    IF from > Len(results) THEN ""
    ELSE IF from = Len(results) THEN ContextBlock(from, results[from])
    ELSE ContextBlock(from, results[from]) \o "\n\n"
             \o JoinBlocks(results, from + 1)

FormatContext(results) == JoinBlocks(results, 1)

\* process_video_pipeline for an upload of `nframes` frames: `fault` is the
\* step before indexing that raised ("none": none did).  What it returns
\* (the video_id of its summary, or "None") and the collection afterwards.
process_video_pipeline(st, video_id, nframes, fault, fail_at, err) ==
    LET r == index_video_frames(st, video_id, PipelineRecords(nframes),
                                fail_at, err)
    IN IF fault # "none"
       THEN [store |-> st, result |-> "None", error |-> fault,
             num_indexed |-> 0, embed_calls |-> 0]
       ELSE IF nframes = 0
       THEN [store |-> st, result |-> "None", error |-> "no frames",
             num_indexed |-> 0, embed_calls |-> 0]
       ELSE IF r.outcome = "raised"
       THEN [store |-> r.store, result |-> "None", error |-> r.error,
             num_indexed |-> 0, embed_calls |-> r.embed_calls]
       ELSE [store |-> r.store, result |-> video_id, error |-> "none",
             num_indexed |-> r.ret_count, embed_calls |-> r.embed_calls]

\* The handler of "Get Answer": every way it can end.
answer_question(st, video_id, question, top_k, embed_x, answer_x) ==
    LET e == get_embedding(question, embed_x, embed_x)
        err == IF e.outcome = "raised" THEN e.error ELSE "none"
        base == [outcome |-> "error", error |-> err, evidence |-> <<>>,
                 context |-> "", answer |-> "", answer_requests |-> 0]
    IN {IF r.outcome = "raised" THEN base
        ELSE IF Len(r.results) = 0
        THEN [base EXCEPT !.outcome = "no results"]
        ELSE LET context == FormatContext(r.results)
                 g == generate_answer(question, context, answer_x, answer_x)
             IN IF g.outcome = "raised"
                THEN [base EXCEPT !.error = g.error, !.context = context,
                                  !.answer_requests = g.requests]
                ELSE [base EXCEPT !.outcome = "answered",
                                  !.evidence = r.results,
                                  !.context = context,
                                  !.answer = g.answer,
                                  !.answer_requests = g.requests] :
          r \in query_video(st, video_id, question, top_k, err)}

\* The sidebar as this run renders it.
ProcessDisabled(uploaded, issues) == ~uploaded \/ issues # {}

\* `disabled=not question`
AskDisabled(question) == question = ""

\* A run that stores whatever the pipeline returned.
SessionAfterProcessAlways(result, previous) == result

\* `if result: st.session_state.processed_video = result`
SessionAfterProcess(result, previous) ==
    IF result # "None" THEN result ELSE previous

RunCall(interaction, ready) ==
    [NoCall EXCEPT !.op = "main", !.interaction = interaction,
                   !.issues = ready.issues,
                   !.completion_requests = ready.completion_requests]

\* A run with no button pressed: the first load, or a change of the
\* uploaded file, the question or a slider.
MainLoad(h, uploaded) ==
    LET ready == check_system_ready(h)
    IN /\ last' = RunCall("load", ready)
       /\ ui' = [uploaded |-> uploaded,
                 process_disabled |-> ProcessDisabled(uploaded, ready.issues),
                 qa_shown |-> processed_video # "None",
                 issues |-> ready.issues]
       /\ UNCHANGED <<store, processed_video>>

\* The run started by "Process Video"; `models` tells whether load_models
\* and init_chroma gave the model and the collection.
MainProcess(h, models, video_id, nframes, fault, fail_at, err) ==
    LET ready == check_system_ready(h)
        p == process_video_pipeline(store, video_id, nframes, fault,
                                    fail_at, err)
        call == [RunCall("process", ready) EXCEPT !.video_id = video_id]
    IN /\ ui.uploaded /\ ~ui.process_disabled
       /\ fail_at \in 0..nframes
       /\ IF ~models
          THEN \* "Failed to load required models": the run ends here
               /\ last' = [call EXCEPT !.outcome = "error",
                                       !.error = "models"]
               /\ ui' = [ui EXCEPT !.process_disabled =
                                     ProcessDisabled(TRUE, ready.issues),
                                   !.qa_shown = FALSE,
                                   !.issues = ready.issues]
               /\ UNCHANGED <<store, processed_video>>
          ELSE /\ store' = p.store
               /\ processed_video' =
                    SessionAfterProcess(p.result, processed_video)
               /\ last' = [call EXCEPT
                             !.outcome = IF p.result # "None" THEN "processed"
                                         ELSE "error",
                             !.error = p.error,
                             !.ret_count = p.num_indexed,
                             !.embed_calls = p.embed_calls,
                             !.fail_at = fail_at]
               /\ ui' = [ui EXCEPT !.process_disabled =
                                     ProcessDisabled(TRUE, ready.issues),
                                   !.qa_shown = processed_video' # "None",
                                   !.issues = ready.issues]

\* The run started by "Get Answer" with a question typed in.
MainAsk(h, question, top_k, embed_x, answer_x) ==
    LET ready == check_system_ready(h)
        call == [RunCall("ask", ready) EXCEPT !.video_id = processed_video,
                                              !.question = question,
                                              !.top_k = top_k]
    IN /\ ui.qa_shown /\ processed_video # "None"
       /\ ~AskDisabled(question)
       /\ \E a \in answer_question(store, processed_video, question, top_k,
                                   embed_x, answer_x) :
            last' = [call EXCEPT
                       !.outcome = a.outcome, !.error = a.error,
                       !.ret_results = a.evidence,
                       !.context = a.context,
                       !.ret_text = a.answer,
                       !.embed_calls = 1,
                       !.answer_requests = a.answer_requests,
                       !.completion_requests =
                           ready.completion_requests + a.answer_requests]
       /\ ui' = [ui EXCEPT !.process_disabled =
                             ProcessDisabled(ui.uploaded, ready.issues),
                           !.issues = ready.issues]
       /\ UNCHANGED <<store, processed_video>>

PipelineFaults == {"none", "decode"}

\* What the question box can hold when the button is looked at.
TypedQuestions == Questions \cup {""}

NextApp ==
    \/ \E h \in HealthStates : \E uploaded \in BOOLEAN : MainLoad(h, uploaded)
    \/ \E h \in HealthStates : \E models \in BOOLEAN : \E v \in VideoIds :
         \E n \in 0..MaxFrames : \E fault \in PipelineFaults :
           \E fail_at \in 0..n : \E err \in ErrorsAt(fail_at) :
             MainProcess(h, models, v, n, fault, fail_at, err)
    \/ \E h \in HealthStates : \E q \in TypedQuestions : \E k \in SliderTopKs :
         \E embed_x \in {OkAnswer, Unreachable} :
           \E answer_x \in HandlerExchanges :
             MainAsk(h, q, k, embed_x, answer_x)
    \/ \E v \in VideoIds : DeleteVideoFrames(v)

SpecApp == Init /\ [][NextApp]_vars

----------------------------------------------------------------------------
(* main.py: a processing run seen from its start to its end.  The browser   *)
(* keeps the last rendered widgets live while the script runs: a click on  *)
(* an enabled button is accepted and starts the script again.              *)

\* A processing run has rendered the sidebar and is inside the pipeline.
InFlight ==
    /\ last.op = "main"
    /\ last.interaction = "process"
    /\ last.outcome = "running"

\* "Process Video" is clicked: the script runs the readiness check, renders
\* the sidebar and enters the processing branch.
ProcessStart(h, models, video_id) ==
    LET ready == check_system_ready(h)
        call == [RunCall("process", ready) EXCEPT !.video_id = video_id]
    IN /\ ui.uploaded /\ ~ui.process_disabled
       /\ last' = IF models
                  THEN [call EXCEPT !.outcome = "running"]
                  ELSE [call EXCEPT !.outcome = "error", !.error = "models"]
       /\ ui' = [ui EXCEPT !.process_disabled =
                             ProcessDisabled(TRUE, ready.issues),
                           !.qa_shown = FALSE,
                           !.issues = ready.issues]
       /\ UNCHANGED <<store, processed_video>>

\* The pipeline of the run in flight comes to its end and the rest of the
\* script is rendered.
ProcessFinish(nframes, fault, fail_at, err) ==
    LET p == process_video_pipeline(store, last.video_id, nframes, fault,
                                    fail_at, err)
    IN /\ InFlight
       /\ fail_at \in 0..nframes
       /\ store' = p.store
       /\ processed_video' = SessionAfterProcess(p.result, processed_video)
       /\ last' = [last EXCEPT
                     !.outcome = IF p.result # "None" THEN "processed"
                                 ELSE "error",
                     !.error = p.error,
                     !.ret_count = p.num_indexed,
                     !.embed_calls = p.embed_calls,
                     !.fail_at = fail_at]
       /\ ui' = [ui EXCEPT !.qa_shown = processed_video' # "None"]

NextRun ==
    \/ \E h \in HealthStates : \E uploaded \in BOOLEAN :
         ~InFlight /\ MainLoad(h, uploaded)
    \/ \E h \in HealthStates : \E models \in BOOLEAN : \E v \in VideoIds :
         ProcessStart(h, models, v)
    \/ \E n \in 0..MaxFrames : \E fault \in PipelineFaults :
         \E fail_at \in 0..n : \E err \in ErrorsAt(fail_at) :
           ProcessFinish(n, fault, fail_at, err)
    \/ \E h \in HealthStates : \E q \in TypedQuestions : \E k \in SliderTopKs :
         \E embed_x \in {OkAnswer, Unreachable} :
           \E answer_x \in HandlerExchanges :
             ~InFlight /\ MainAsk(h, q, k, embed_x, answer_x)

SpecRun == Init /\ [][NextRun]_vars

----------------------------------------------------------------------------
(* scene_detection.SceneDetector.extract_keyframes *)

\* What one frame looks like to CLIP: its embedding, one coordinate.
FrameLooks == {0, 1, 4}

FrameLists == UNION {[1..n -> FrameLooks] : n \in 0..MaxSourceFrames}

\* A video file as OpenCV reads it: whether it opens, its frame rate, its
\* decodable frames, and whether CAP_PROP_POS_MSEC after a read is the
\* position of the frame just read (0) or of the one after it (1).
Videos ==
    {NoVideo}
        \cup [opened : {TRUE}, fps : {1, 2}, frames : FrameLists,
              pos_offset : {0, 1}]

\* `interval = int(fps / sample_rate) if sample_rate < fps else 1`
Interval(fps, sample_rate) ==
    IF sample_rate < fps THEN fps \div sample_rate ELSE 1

\* The read loop: the positions `count` whose frame is kept, in order.
SampledCounts(video, sample_rate) ==
    LET interval == Interval(video.fps, sample_rate)
        counts == [i \in 1..Len(video.frames) |-> i - 1]
        Kept(count) == count % interval = 0
    IN IF video.opened THEN SelectSeq(counts, Kept) ELSE <<>>

\* cap.get(cv2.CAP_PROP_POS_MSEC) after reading frame `count`, in
\* milliseconds.
PosMsec(video, count) == ((count + video.pos_offset) * 1000) \div video.fps

\* `if not frames_buffer: return []` missing.
NoFramesGuardMissing(sampled) == FALSE

\* `if not frames_buffer: return []`
NoFramesGuard(sampled) == Len(sampled) = 0

\* The cluster count without the cap at the number of sampled frames.
ActualClustersUncapped(num_clusters, n) ==
    IF num_clusters < 1 THEN 1 ELSE num_clusters

\* `actual_clusters = min(num_clusters, len(frames_buffer))`, floored at 1
ActualClusters(num_clusters, n) ==
    LET capped == IF num_clusters <= n THEN num_clusters ELSE n
    IN IF capped < 1 THEN 1 ELSE capped

Abs(x) == IF x < 0 THEN -x ELSE x

RECURSIVE SumOver(_, _)
SumOver(embeddings, members) ==
    IF members = {} THEN 0
    ELSE LET i == CHOOSE m \in members : TRUE
         IN embeddings[i] + SumOver(embeddings, members \ {i})

\* A cluster centre is a fraction <<numerator, denominator>>: the mean of
\* the members' embeddings.
Centroid(embeddings, members) ==
    <<SumOver(embeddings, members), Cardinality(members)>>

\* Whether x is at most as far from centre c as from centre d.
NoFarther(x, c, d) ==
    Abs(x * c[2] - c[1]) * d[2] <= Abs(x * d[2] - d[1]) * c[2]

Members(labels, j) == {i \in DOMAIN labels : labels[i] = j}

\* KMeans(n_clusters=k).fit(embeddings): every fit Lloyd's iteration can
\* stop at.  Each sample is labelled with a nearest centre and each centre
\* is the mean of its members; a cluster is left without members only when
\* the samples hold fewer than k different embeddings, and its centre then
\* lies on one of the samples.
KMeansFits(k, embeddings) ==
    LET n == Len(embeddings)
        different == Cardinality({embeddings[i] : i \in 1..n})
        Empty(labels) == {j \in 1..k : Members(labels, j) = {}}
        Centers(labels, fallback) ==
            [j \in 1..k |->
               IF Members(labels, j) = {}
               THEN <<embeddings[fallback[j]], 1>>
               ELSE Centroid(embeddings, Members(labels, j))]
        Fit(labels, fallback) ==
            [labels |-> labels, centers |-> Centers(labels, fallback)]
        Stable(f) ==
            \A i \in 1..n : \A j \in 1..k :
                NoFarther(embeddings[i], f.centers[f.labels[i]], f.centers[j])
        FitsOf(labels) ==
            IF Empty(labels) # {} /\ different >= k THEN {}
            ELSE {f \in {Fit(labels, fallback) :
                           fallback \in [Empty(labels) -> 1..n]} : Stable(f)}
    IN UNION {FitsOf(labels) : labels \in [1..n -> 1..k]}

\* pairwise_distances_argmin_min(cluster_centers_, embeddings): for each
\* centre the index of the nearest sample, the first one among equals.
ClosestIndices(centers, embeddings) ==
    [j \in DOMAIN centers |->
       CHOOSE i \in DOMAIN embeddings :
         /\ \A o \in DOMAIN embeddings :
              Abs(embeddings[i] * centers[j][2] - centers[j][1])
                <= Abs(embeddings[o] * centers[j][2] - centers[j][1])
         /\ \A o \in DOMAIN embeddings :
              (Abs(embeddings[o] * centers[j][2] - centers[j][1])
                 = Abs(embeddings[i] * centers[j][2] - centers[j][1]))
              => i <= o]

RemoveAt(s, i) == SubSeq(s, 1, i - 1) \o SubSeq(s, i + 1, Len(s))

\* sorted(closest_indices)
RECURSIVE sorted(_)
sorted(s) ==
    IF Len(s) = 0 THEN <<>>
    ELSE LET m == CHOOSE i \in DOMAIN s : \A j \in DOMAIN s : s[i] <= s[j]
         IN <<s[m]>> \o sorted(RemoveAt(s, m))

\* The selection left in cluster order.
SelectedIndicesInClusterOrder(closest_indices) == closest_indices

\* `selected_indices = sorted(closest_indices)`
SelectedIndices(closest_indices) == sorted(closest_indices)

\* The dict appended for sampled frame idx; timestamp_seconds is kept in
\* milliseconds.
Keyframe(video, sampled, idx) ==
    LET count == sampled[idx]
        msec == PosMsec(video, count)
    IN [frame |-> video.frames[count + 1],
        timestamp_seconds |-> msec,
        timestamp_str |-> format_timestamp(msec \div 1000),
        frame_index |-> count,
        type |-> "visual"]

\* extract_keyframes(video_path, num_clusters, sample_rate): every outcome.
extract_keyframes(video, num_clusters, sample_rate) ==
    LET sampled == SampledCounts(video, sample_rate)
        n == Len(sampled)
        embeddings == [i \in 1..n |-> video.frames[sampled[i] + 1]]
        actual_clusters == ActualClusters(num_clusters, n)
        base == [outcome |-> "returned", error |-> "none", keyframes |-> <<>>,
                 scene |-> [NoScene EXCEPT !.sampled = sampled]]
    IN IF NoFramesGuard(sampled)
       THEN {base}
       ELSE IF n = 0
       THEN \* np.vstack of an empty list
            {[base EXCEPT !.outcome = "raised", !.error = "ValueError",
                          !.scene.embed_calls = 1]}
       ELSE IF actual_clusters > n
       THEN \* KMeans.fit: n_samples should be >= n_clusters
            {[base EXCEPT !.outcome = "raised", !.error = "ValueError",
                          !.scene.embed_calls = 1,
                          !.scene.actual_clusters = actual_clusters,
                          !.scene.kmeans_fits = 1]}
       ELSE {LET closest_indices == ClosestIndices(f.centers, embeddings)
                 selected_indices == SelectedIndices(closest_indices)
             IN [base EXCEPT
                   !.keyframes =
                       [i \in DOMAIN selected_indices |->
                          Keyframe(video, sampled, selected_indices[i])],
                   !.scene = [sampled |-> sampled,
                              actual_clusters |-> actual_clusters,
                              embed_calls |-> 1,
                              kmeans_fits |-> 1,
                              labels |-> f.labels,
                              centers |-> f.centers,
                              closest_indices |-> closest_indices]] :
               f \in KMeansFits(actual_clusters, embeddings)}

\* A call waits in `last` with its arguments until it is made.
PendingCall == last.op = "pending"

ExtractKeyframes ==
    /\ PendingCall
    /\ \E r \in extract_keyframes(last.video, last.num_clusters,
                                  last.sample_rate) :
         last' = [last EXCEPT !.op = "extract_keyframes",
                              !.outcome = r.outcome, !.error = r.error,
                              !.ret_results = r.keyframes,
                              !.ret_count = Len(r.keyframes),
                              !.scene = r.scene]
    /\ UNCHANGED <<store, processed_video, ui>>

NumClusters == -1..MaxSourceFrames

SampleRates == {1, 2}

InitScene ==
    /\ store = EmptyStore
    /\ processed_video = "None"
    /\ ui = NoUi
    /\ \E video \in Videos : \E k \in NumClusters : \E rate \in SampleRates :
         last = [NoCall EXCEPT !.op = "pending", !.video = video,
                               !.num_clusters = k, !.sample_rate = rate]

NextScene == ExtractKeyframes

SpecScene == InitScene /\ [][NextScene]_vars

----------------------------------------------------------------------------
(* audio.AudioProcessor.process_video and the error handlers *)

\* segment["text"].strip()
Strip(text) ==
    CASE text = " door slams " -> "door slams"
      [] text = "  " -> ""
      [] OTHER -> text

SegmentTexts == {"alarm rings", " door slams ", "  "}

\* Whisper segments: where each starts and what was heard.
SegmentLists ==
    UNION {[1..n -> [start : {2}, text : SegmentTexts]] : n \in 0..MaxSegments}

\* What can happen to one video: whether it has a sound track, whether the
\* extraction raises, whether the .mp3 exists afterwards, whether the
\* transcription raises, whether os.remove raises, and the segments heard.
Audios ==
    [has_audio : BOOLEAN, extract_fault : BOOLEAN, written : BOOLEAN,
     transcribe_fault : BOOLEAN, remove_fault : BOOLEAN,
     segments : SegmentLists]

\* The loop over result["segments"]: empty texts are skipped.
RECURSIVE Segments(_)
Segments(heard) ==
    IF Len(heard) = 0 THEN <<>>
    ELSE LET text == Strip(Head(heard).text)
         IN (IF text = "" THEN <<>>
             ELSE <<AudioRecord(text, Head(heard).start)>>)
                \o Segments(Tail(heard))

\* process_video(video_path): what it returns, the handlers that caught an
\* exception, and those of them that printed it.
process_video(audio) ==
    LET base == [segments |-> <<>>, caught |-> {}, logged |-> {}]
    IN IF audio.extract_fault
       THEN [base EXCEPT !.caught = {"extract"}, !.logged = {"extract"}]
       ELSE IF ~audio.has_audio THEN base
       ELSE IF ~audio.written THEN base
       ELSE IF audio.transcribe_fault
       THEN [base EXCEPT !.caught = {"transcribe"}, !.logged = {"transcribe"}]
       ELSE [base EXCEPT
               !.segments = Segments(audio.segments),
               \* `except: pass` around os.remove
               !.caught = IF audio.remove_fault THEN {"cleanup"} ELSE {}]

ProcessVideoAudio ==
    LET r == process_video(last.audio)
    IN /\ PendingCall
       /\ last' = [last EXCEPT !.op = "process_video",
                               !.outcome = "returned",
                               !.ret_results = r.segments,
                               !.ret_count = Len(r.segments),
                               !.caught = r.caught,
                               !.logged = r.logged]
       /\ UNCHANGED <<store, processed_video, ui>>

TestOllamaModels(h) ==
    LET r == test_ollama_models(h)
    IN /\ PendingCall
       /\ last' = [last EXCEPT !.op = "test_ollama_models",
                               !.outcome = "returned",
                               !.issues =
                                   (IF r.embedding_model THEN {}
                                    ELSE {"embedding_model"})
                                     \cup (IF r.llm_model THEN {}
                                           ELSE {"llm_model"}),
                               !.completion_requests = r.completion_requests,
                               !.caught = r.caught,
                               !.logged = r.logged]
       /\ UNCHANGED <<store, processed_video, ui>>

InitAudio ==
    /\ store = EmptyStore
    /\ processed_video = "None"
    /\ ui = NoUi
    /\ \E audio \in Audios :
         last = [NoCall EXCEPT !.op = "pending", !.audio = audio]

NextAudio ==
    \/ ProcessVideoAudio
    \/ \E h \in HealthStates : TestOllamaModels(h)

SpecAudio == InitAudio /\ [][NextAudio]_vars

----------------------------------------------------------------------------
(* video_processing.extract_frames *)

\* The videos handed to extract_frames: CAP_PROP_FPS is 0 for a file whose
\* container does not tell the frame rate.
SourceVideos ==
    {NoVideo}
        \cup [opened : {TRUE}, fps : {0, 1, 2, 4}, frames : FrameLists,
              pos_offset : {0}]

TargetFps == -1..3

\* `int(video_fps / target_fps) if target_fps > 0 else 1`, then
\* `max(1, frame_interval)`
FrameInterval(video_fps, target_fps) ==
    LET frame_interval == IF target_fps > 0 THEN video_fps \div target_fps
                          ELSE 1
    IN IF frame_interval < 1 THEN 1 ELSE frame_interval

\* The positions `actual_frame_number` whose frame is extracted, in order.
ExtractedPositions(video, frame_interval) ==
    LET positions == [i \in 1..Len(video.frames) |-> i - 1]
        Extracted(actual_frame_number) ==
            actual_frame_number % frame_interval = 0
    IN SelectSeq(positions, Extracted)

\* The dict appended for the frame at `actual_frame_number`, the frame_idx-th
\* one extracted; timestamp_seconds is kept in milliseconds.
ExtractedFrame(video, frame_idx, actual_frame_number) ==
    LET msec == (actual_frame_number * 1000) \div video.fps
    IN [frame_index |-> frame_idx,
        timestamp_seconds |-> msec,
        timestamp_str |-> format_timestamp(msec \div 1000),
        frame |-> video.frames[actual_frame_number + 1]]

\* extract_frames(video_path, target_fps): what it returns or raises.
extract_frames(video, target_fps) ==
    LET frame_interval == FrameInterval(video.fps, target_fps)
        positions == ExtractedPositions(video, frame_interval)
        base == [outcome |-> "raised", error |-> "none",
                 frame_interval |-> 0, positions |-> <<>>,
                 extracted_frames |-> <<>>]
    IN IF ~video.opened
       THEN [base EXCEPT !.error = "ValueError"]
       ELSE IF Len(positions) > 0 /\ video.fps = 0
       THEN \* `actual_frame_number / video_fps` for the first frame
            [base EXCEPT !.error = "ZeroDivisionError",
                         !.frame_interval = frame_interval]
       ELSE [base EXCEPT
               !.outcome = "returned",
               !.frame_interval = frame_interval,
               !.positions = positions,
               !.extracted_frames =
                   [i \in DOMAIN positions |->
                      ExtractedFrame(video, i - 1, positions[i])]]

ExtractFrames ==
    LET r == extract_frames(last.video, last.target_fps)
    IN /\ PendingCall
       /\ last' = [last EXCEPT !.op = "extract_frames",
                               !.outcome = r.outcome, !.error = r.error,
                               !.frame_interval = r.frame_interval,
                               !.scene.sampled = r.positions,
                               !.ret_results = r.extracted_frames,
                               !.ret_count = Len(r.extracted_frames)]
       /\ UNCHANGED <<store, processed_video, ui>>

InitFrames ==
    /\ store = EmptyStore
    /\ processed_video = "None"
    /\ ui = NoUi
    /\ \E video \in SourceVideos : \E target_fps \in TargetFps :
         last = [NoCall EXCEPT !.op = "pending", !.video = video,
                               !.target_fps = target_fps]

NextFrames == ExtractFrames

SpecFrames == InitFrames /\ [][NextFrames]_vars

----------------------------------------------------------------------------
(* Claims *)

Returned(op) == last.op = op /\ last.outcome = "returned"

\* C1: a query for video v returns only entries stored under video_id v, each
\* result carrying that entry's metadata; no entry of another video appears.
C1_QueryReturnsOnlyOwnVideo ==
    Returned("query") =>
        \A i \in DOMAIN last.ret_ids :
            /\ last.ret_ids[i] \in DOMAIN store
            /\ store[last.ret_ids[i]].metadata.video_id = last.video_id
            /\ last.ret_results[i].caption
                 = store[last.ret_ids[i]].metadata.caption
            /\ last.ret_results[i].frame_index
                 = store[last.ret_ids[i]].metadata.frame_index

\* A query answered from one video while the other video has entries too.
C1_Witness ==
    /\ Returned("query")
    /\ Len(last.ret_results) > 0
    /\ \E id \in DOMAIN store : store[id].metadata.video_id # last.video_id

\* C2: for top_k in MIN_TOP_K..MAX_TOP_K a query returns at most top_k
\* results, and distances never decrease along the list.
C2_AtMostTopKNearestFirst ==
    Returned("query") =>
        /\ last.top_k \in MIN_TOP_K..MAX_TOP_K
        /\ Len(last.ret_results) <= last.top_k
        /\ \A i, j \in DOMAIN last.ret_results :
             i < j => last.ret_results[i].distance <= last.ret_results[j].distance

\* A query cut to top_k: the video holds more entries than were asked for,
\* and the results are not all at one distance.
C2_Witness ==
    /\ Returned("query")
    /\ Cardinality(MatchingIds(store, last.video_id)) > last.top_k
    /\ Len(last.ret_results) = last.top_k
    /\ last.ret_results[1].distance < last.ret_results[last.top_k].distance

\* C3: after a successful index call every record passed to it has its own
\* stored entry: the entry under the record's id carries that record's
\* metadata, and two different records of the call do not share an entry.
C3_OneEntryPerRecord ==
    Returned("index") =>
        /\ \A i \in DOMAIN last.frame_records :
             LET id == FrameId(last.video_id, last.frame_records[i])
             IN /\ id \in DOMAIN store
                /\ store[id].metadata
                     = Metadata(last.video_id, last.frame_records[i])
        /\ \A i, j \in DOMAIN last.frame_records :
             last.frame_records[i] # last.frame_records[j] =>
                 FrameId(last.video_id, last.frame_records[i])
                   # FrameId(last.video_id, last.frame_records[j])

\* C4: an index call of n records for a video with no entries, whose
\* embeddings all succeed, returns n and raises the entry count by n.
C4_FreshIndexAddsN ==
    [][(/\ last'.op = "index"
        /\ last'.fail_at = 0
        /\ MatchingIds(store, last'.video_id) = {})
       => (/\ last'.outcome = "returned"
           /\ last'.ret_count = Len(last'.frame_records)
           /\ Count(store') = Count(store) + Len(last'.frame_records))]_vars

\* C5: delete_video_frames returns the number of entries stored for the
\* video and leaves none; a call for a video without entries returns 0 and
\* changes nothing; so the second of two calls in a row returns 0.
C5_DeleteIdempotent ==
    [][last'.op = "delete"
       => (/\ last'.outcome = "returned"
           /\ last'.ret_count = Cardinality(MatchingIds(store, last'.video_id))
           /\ MatchingIds(store', last'.video_id) = {}
           /\ (MatchingIds(store, last'.video_id) = {} => store' = store)
           /\ (last.op = "delete" /\ last.video_id = last'.video_id
                 => last'.ret_count = 0))]_vars

\* A delete that found entries to remove.
C5_Witness == Returned("delete") /\ last.ret_count > 0

\* C6 as claimed: when the embedding of record i > 0 fails, the entries of
\* the records before it are in the store afterwards.
C6_EarlierRecordsStored ==
    (last.op = "index" /\ last.fail_at > 1) =>
        \A j \in 1..(last.fail_at - 1) :
            FrameId(last.video_id, last.frame_records[j]) \in DOMAIN store

\* C6 amended: when the embedding of record i > 0 fails, the call raises that
\* failure after i + 1 embedding calls and the store is as it was before the
\* call: nothing of the call is written.
C6_EmbeddingFailureWritesNothing ==
    [][(last'.op = "index" /\ last'.fail_at > 1)
       => (/\ store' = store
           /\ last'.outcome = "raised"
           /\ last'.error \in EmbeddingErrors
           /\ last'.embed_calls = last'.fail_at)]_vars

\* An index call whose second record's embedding failed.
C6_Witness ==
    /\ last.op = "index"
    /\ last.fail_at = 2
    /\ last.outcome = "raised"
    /\ FrameId(last.video_id, last.frame_records[1]) \notin DOMAIN store

\* C7: a question about a video with no entries ends with no evidence, and
\* the run that handles it issues no request to the completion service.
C7_NoResultsNoCompletionRequest ==
    (last.op = "main" /\ last.interaction = "ask"
        /\ MatchingIds(store, last.video_id) = {}
        /\ last.outcome = "no results")
    => (last.ret_results = <<>> /\ last.completion_requests = 0)

\* C8: a 2xx answer without the "embedding" field makes get_embedding raise
\* ValueError (not the connectivity error); it returns no vector.
C8_MissingEmbeddingRaises ==
    (/\ last.op = "get_embedding"
     /\ last.exchange.kind = "ok"
     /\ "embedding" \notin last.exchange.fields)
    => (/\ last.outcome = "raised"
        /\ last.error = "ValueError"
        /\ last.ret_vector = <<>>)

\* C8: a 200 answer that carries "response" but no "embedding".
C8_Witness ==
    /\ last.op = "get_embedding"
    /\ last.exchange = [kind |-> "ok", fields |-> {"response"}]
    /\ last.error = "ValueError"

\* C9: get_embedding and generate_answer issue exactly one request; if it
\* is unreachable, times out or returns an HTTP error, the call raises the
\* connectivity error with no second request.
C9_OneRequestNoRetry ==
    last.op \in {"get_embedding", "generate_answer"} =>
        /\ last.requests = 1
        /\ (last.exchange.kind \in {"unreachable", "timeout", "http_error"}
              => last.outcome = "raised" /\ last.error = "RequestException")

\* C9: a completion request that timed out.
C9_Witness ==
    /\ last.op = "generate_answer"
    /\ last.exchange.kind = "timeout"
    /\ last.error = "RequestException"
    /\ last.requests = 1

\* C10: index_video_frames with an empty list returns 0, calls the
\* embedding function not once, and leaves the store as it was.
C10_EmptyListIsNoOp ==
    [][(last'.op = "index" /\ last'.frame_records = <<>>)
       => (/\ last'.outcome = "returned"
           /\ last'.ret_count = 0
           /\ last'.embed_calls = 0
           /\ store' = store)]_vars

\* An empty index call on a collection that holds entries.
C10_Witness ==
    /\ Returned("index")
    /\ last.frame_records = <<>>
    /\ Count(store) > 0

\* C11: with n > 0 sampled frames and k requested clusters the call uses
\* max(1, min(k, n)) clusters and returns that many keyframes: one for k = 1,
\* n for n < k.
C11_ClusterCount ==
    (last.op = "extract_keyframes" /\ Len(last.scene.sampled) > 0) =>
        LET n == Len(last.scene.sampled)
            k == last.num_clusters
            lower == IF k < n THEN k ELSE n
            expected == IF lower > 1 THEN lower ELSE 1
        IN /\ last.outcome = "returned"
           /\ last.scene.actual_clusters = expected
           /\ Len(last.ret_results) = expected
           /\ (k = 1 => Len(last.ret_results) = 1)
           /\ (n < k => Len(last.ret_results) = n)

\* C11: two sampled frames, three clusters asked for, two keyframes.
C11_Witness ==
    /\ last.op = "extract_keyframes"
    /\ Len(last.scene.sampled) = 2
    /\ last.num_clusters = 3
    /\ Len(last.ret_results) = 2

\* C12: a video with no decodable frame, or one that does not open, gives
\* the empty list without an error, an embedding pass or a clustering.
C12_NoFramesEmptyResult ==
    (last.op = "extract_keyframes" /\ last.video.frames = <<>>) =>
        /\ last.outcome = "returned"
        /\ last.ret_results = <<>>
        /\ last.scene.embed_calls = 0
        /\ last.scene.kmeans_fits = 0

\* C12: the call made on a video that does not open.
C12_Witness ==
    /\ last.op = "extract_keyframes"
    /\ ~last.video.opened
    /\ last.outcome = "returned"

\* C16: the keyframes are pairwise different sampled frames, the j-th chosen
\* one a member of cluster j nearest to its centre; with at most k sampled
\* frames every sampled frame is returned exactly once.
C16_OneDistinctKeyframePerCluster ==
    (last.op = "extract_keyframes" /\ last.outcome = "returned"
        /\ Len(last.scene.sampled) > 0) =>
        LET scene == last.scene
            n == Len(scene.sampled)
            keyframes == last.ret_results
        IN /\ \A i, j \in DOMAIN keyframes :
                i # j => keyframes[i].frame_index # keyframes[j].frame_index
           /\ \A j \in DOMAIN scene.closest_indices :
                scene.labels[scene.closest_indices[j]] = j
           /\ (n <= last.num_clusters =>
                 \A i \in 1..n :
                   Cardinality({j \in DOMAIN keyframes :
                      keyframes[j].frame_index = scene.sampled[i]}) = 1)

\* C17: frame_index and timestamp_seconds never decrease along the returned
\* list, whatever the order of the clusters.
C17_TemporalOrder ==
    last.op = "extract_keyframes" =>
        \A i, j \in DOMAIN last.ret_results :
            i < j =>
              /\ last.ret_results[i].frame_index
                   <= last.ret_results[j].frame_index
              /\ last.ret_results[i].timestamp_seconds
                   <= last.ret_results[j].timestamp_seconds

\* C17: keyframes of clusters that came out in another order than the frames.
C17_Witness ==
    /\ last.op = "extract_keyframes"
    /\ Len(last.ret_results) >= 2
    /\ \E i, j \in DOMAIN last.scene.closest_indices :
         i < j /\ last.scene.closest_indices[i] > last.scene.closest_indices[j]
    /\ last.ret_results[1].frame_index < last.ret_results[2].frame_index

\* C13: while a processing run is in flight the process control is
\* disabled, so no second processing run can be started before it ends.
C13_ProcessDisabledInFlight == InFlight => ui.process_disabled

\* C14: neither a processing run nor a query is started from a screen that
\* reports the inference server unavailable.
C14_HealthGatesBothControls ==
    [][(last'.op = "main" /\ last'.interaction \in {"process", "ask"})
       => "ollama" \notin ui.issues]_vars

\* C15: every handler that caught an exception printed it, showed it or
\* raised it again before the call ended.
C15_NoSilentCatch ==
    last.op \in {"process_video", "test_ollama_models"}
        => last.caught \subseteq last.logged

\* One expected block per result: rank, timestamp and caption.
ExpectedBlocks(results) ==
    [i \in DOMAIN results |->
       "[Frame " \o ToString(i) \o "] time=" \o results[i].timestamp_str
           \o "\ncaption: " \o results[i].caption]

\* C18: a question whose query returned m >= 1 results is sent with a
\* context of exactly m blocks in retrieval order, block i carrying rank i
\* and the i-th result's timestamp and caption, in one completion request.
C18_ContextBlocksInRetrievalOrder ==
    (last.op = "main" /\ last.interaction = "ask"
        /\ last.outcome = "answered") =>
        LET results == last.ret_results
            blocks == ExpectedBlocks(results)
            m == Len(results)
        IN /\ m >= 1
           /\ results \in {r.results :
                  r \in query_video(store, last.video_id, last.question,
                                    last.top_k, "none")}
           /\ last.context =
                IF m = 1 THEN blocks[1]
                ELSE IF m = 2 THEN blocks[1] \o "\n\n" \o blocks[2]
                ELSE blocks[1] \o "\n\n" \o blocks[2] \o "\n\n" \o blocks[3]
           /\ last.answer_requests = 1

\* C18: a question answered from two retrieved frames.
C18_Witness ==
    /\ last.op = "main"
    /\ last.interaction = "ask"
    /\ last.outcome = "answered"
    /\ Len(last.ret_results) = 2
    /\ last.answer_requests = 1

\* C19: a processing run that fails leaves processed_video as it was, and
\* every question is asked with the video_id held there, which changes only
\* when a run succeeds.
C19_FailedRunKeepsProcessedVideo ==
    [][/\ (last'.op = "main" /\ last'.interaction = "process"
             /\ last'.outcome = "error")
          => processed_video' = processed_video
       /\ (last'.op = "main" /\ last'.interaction = "ask")
          => (last'.video_id = processed_video
                /\ processed_video' = processed_video)
       /\ processed_video' # processed_video
          => (last'.outcome = "processed"
                /\ processed_video' = last'.video_id)]_vars

\* C19: a failed run for another video than the one processed before.
C19_Witness ==
    /\ last.op = "main"
    /\ last.interaction = "process"
    /\ last.outcome = "error"
    /\ processed_video # "None"
    /\ last.video_id # processed_video

\* C20: delete_video_frames(v) returns the number of entries of v, leaves
\* none of them, so that a query for v returns nothing, and leaves every
\* entry of another video in place with its document and metadata.
C20_DeleteRemovesExactlyOneVideo ==
    [][last'.op = "delete" =>
         LET v == last'.video_id
             others == {id \in DOMAIN store : store[id].metadata.video_id # v}
         IN /\ last'.ret_count = Cardinality(DOMAIN store \ others)
            /\ DOMAIN store' = others
            /\ \A id \in others : store'[id] = store[id]
            /\ \A q \in Questions : \A k \in TopKs :
                 \A r \in query_video(store', v, q, k, "none") :
                   r.outcome = "returned" /\ r.results = <<>>]_vars

\* C20: a delete that removed entries while another video kept its own.
C20_Witness ==
    /\ Returned("delete")
    /\ last.ret_count > 0
    /\ store # EmptyStore

\* C21: for every target_fps and video fps extract_frames uses an interval
\* of at least 1, returns exactly the frames at the multiples of the
\* interval, numbered 0, 1, ..., n-1 in source order, so that the records of
\* one extraction get pairwise different store ids.
C21_ConsecutiveFrameIndex ==
    (last.op = "extract_frames" /\ last.video.opened) =>
        LET frames == last.ret_results
            total == Len(last.video.frames)
            expected == {p \in 0..(total - 1) : p % last.frame_interval = 0}
        IN /\ last.frame_interval >= 1
           /\ last.outcome = "returned"
           /\ Len(frames) = Cardinality(expected)
           /\ {last.scene.sampled[i] : i \in DOMAIN frames} = expected
           /\ \A i, j \in DOMAIN frames :
                i < j => last.scene.sampled[i] < last.scene.sampled[j]
           /\ \A i \in DOMAIN frames :
                /\ frames[i].frame_index = i - 1
                /\ frames[i].frame = last.video.frames[last.scene.sampled[i] + 1]
           /\ \A v \in VideoIds : \A i, j \in DOMAIN frames :
                i # j => FrameId(v, frames[i]) # FrameId(v, frames[j])

====
